---- MODULE Spec2Model ----
(***************************************************************************)
(* Model of dicegame.py: a non-transitive dice game whose random draws are *)
(* staged with an HMAC commitment (FairRandom), a user guess decides who   *)
(* picks a die first, and each throw is (face + user_add) % modulo.        *)
(* Strings (argv, console input) are sequences of one-character strings,   *)
(* so that isdigit, int, str and split are computed as Python computes     *)
(* them.  Indices are 0-based as in the source; Seq access adds 1.         *)
(***************************************************************************)
EXTENDS Integers, Sequences, FiniteSets, TLC

\* ------------------------------------------------------------------ bounds
\* size of the key space secrets.token_bytes is drawn from in the model
NumKeys == 2

\* secrets.token_bytes calls are counted up to this number
MaxDraws == 4

\* largest limit compute_modular_result is tried with on its own
MaxModulus == 7

\* ------------------------------------------------------- program constants
MinDice == 3
CoinLimit == 2
DefaultModulo == 6

None == -1

\* ------------------------------------------------------- string primitives
Digits == <<"0", "1", "2", "3", "4", "5", "6", "7", "8", "9">>

DigitVal(c) == CHOOSE d \in 0..9 : Digits[d + 1] = c

IsDigitChar(c) == \E d \in 0..9 : Digits[d + 1] = c

\* str.isdigit(): non-empty and every character a digit
isdigit(s) == Len(s) > 0 /\ \A i \in 1..Len(s) : IsDigitChar(s[i])

RECURSIVE DigitsToNat(_)
DigitsToNat(s) ==
    IF Len(s) = 0 THEN 0
    ELSE DigitsToNat(SubSeq(s, 1, Len(s) - 1)) * 10 + DigitVal(s[Len(s)])

\* int(x) succeeds on an optional sign followed by digits
IsIntLiteral(s) ==
    IF Len(s) > 0 /\ s[1] \in {"-", "+"} THEN isdigit(Tail(s)) ELSE isdigit(s)

int(s) ==
    IF s[1] = "-" THEN 0 - DigitsToNat(Tail(s))
    ELSE IF s[1] = "+" THEN DigitsToNat(Tail(s))
    ELSE DigitsToNat(s)

RECURSIVE str(_)
str(n) == IF n < 10 THEN <<Digits[n + 1]>> ELSE str(n \div 10) \o <<Digits[(n % 10) + 1]>>

\* d.split(","): the fields between commas, empty fields included
RECURSIVE split(_)
split(s) ==
    IF \A i \in 1..Len(s) : s[i] # "," THEN <<s>>
    ELSE LET k == CHOOSE i \in 1..Len(s) : s[i] = "," /\ \A j \in 1..(i - 1) : s[j] # ","
         IN  <<SubSeq(s, 1, k - 1)>> \o split(SubSeq(s, k + 1, Len(s)))

\* ------------------------------------------------------------- FairRandom
Keys == 1..NumKeys

\* hmac.new(key, str(number).encode(), sha3_256).hexdigest(): an ideal keyed
\* digest, deterministic and collision free on (key, message)
hmac_new(key, msg) == <<key, msg>>

\* variant: the digest is taken over another number than the one returned
generate_secure_random_OtherNumber(limit) ==
    { [number |-> n, key |-> k, hmac |-> hmac_new(k, str((n + 1) % limit))] :
          n \in 0..(limit - 1), k \in Keys }

\* the possible results (number, key, hmac_hash) of generate_secure_random
generate_secure_random(limit) ==
    { [number |-> n, key |-> k, hmac |-> hmac_new(k, str(n))] : n \in 0..(limit - 1), k \in Keys }

\* variant: the remainder is taken by limit + 1
compute_modular_result_WideLimit(user_choice, computer_choice, limit) ==
    (user_choice + computer_choice) % (limit + 1)

compute_modular_result(user_choice, computer_choice, limit) ==
    (user_choice + computer_choice) % limit

\* ------------------------------------------------------------------- Dice
\* the checks of Dice.__init__ on the parsed values
DiceValuesOk(values) == \A i \in 1..Len(values) : values[i] >= 0

\* [int(x) for x in d.split(",")] raises ValueError unless every field parses
FieldsParse(d) == \A i \in 1..Len(split(d)) : IsIntLiteral(split(d)[i])

ParseDie(d) == [i \in 1..Len(split(d)) |-> int(split(d)[i])]

\* ---------------------------------------------------- command lines tried
\* sys.argv[1:], one string per die
ArgvExample ==
    << <<"2", ",", "2", ",", "4", ",", "4", ",", "9", ",", "9">>,
       <<"1", ",", "1", ",", "6", ",", "6", ",", "8", ",", "8">>,
       <<"3", ",", "3", ",", "5", ",", "5", ",", "7", ",", "7">> >>

ArgvFourDice ==
    << <<"2", ",", "2", ",", "4", ",", "4", ",", "9", ",", "9">>,
       <<"1", ",", "1", ",", "6", ",", "6", ",", "8", ",", "8">>,
       <<"3", ",", "3", ",", "5", ",", "5", ",", "7", ",", "7">>,
       <<"0", ",", "0", ",", "5", ",", "5", ",", "5", ",", "9">> >>

ArgvFourFaces ==
    << <<"1", ",", "4", ",", "4", ",", "4">>,
       <<"3", ",", "3", ",", "3", ",", "6">>,
       <<"2", ",", "2", ",", "5", ",", "5">> >>

ArgvMixedLength ==
    << <<"2", ",", "2", ",", "4", ",", "4", ",", "9", ",", "9">>,
       <<"1", ",", "1", ",", "6", ",", "6", ",", "8", ",", "8">>,
       <<"3", ",", "5">> >>

ArgvTwoDice ==
    << <<"2", ",", "2", ",", "4", ",", "4", ",", "9", ",", "9">>,
       <<"1", ",", "1", ",", "6", ",", "6", ",", "8", ",", "8">> >>

ArgvNegative ==
    << <<"2", ",", "2", ",", "4", ",", "4", ",", "9", ",", "9">>,
       <<"1", ",", "1", ",", "6", ",", "6", ",", "8", ",", "8">>,
       <<"3", ",", "-", "1", ",", "5", ",", "5", ",", "7", ",", "7">> >>

ArgvNonInteger ==
    << <<"2", ",", "2", ",", "4", ",", "4", ",", "9", ",", "9">>,
       <<"1", ",", "a", ",", "6", ",", "6", ",", "8", ",", "8">>,
       <<"3", ",", "3", ",", "5", ",", "5", ",", "7", ",", "7">> >>

Configurations ==
    { ArgvExample,
      ArgvFourDice,
      ArgvFourFaces,
      ArgvMixedLength,
      ArgvTwoDice,
      ArgvNegative,
      ArgvNonInteger }

\* what the user may type at a prompt: "0".."7", "X", "" and "01"
Inputs ==
    { <<Digits[d + 1]>> : d \in 0..7 } \cup { <<"X">>, <<>>, <<"0", "1">> }

\* ------------------------------------------------------------------ state
VARIABLES
    argv,             \* sys.argv[1:]
    pc,               \* where the program stands (see TypeOK)
    dice,             \* DiceGame.dice, each die the sequence Dice.values
    first_turn,       \* result of determine_first_turn: "user" / "computer"
    offered,          \* pool indices of the dice in the list given to choose_dice
    computer_choice,  \* computer.dice_choice
    user_choice,      \* user.dice_choice
    exchange,         \* the commitment of the running determine_first_turn / roll_dice call
    roller,           \* the player argument of the running roll_dice call
    final_index,      \* final_index of the last roll_dice that got that far
    comp_roll,        \* comp_roll of play_round
    user_roll,        \* user_roll of play_round
    outcome,          \* what play_round printed: "user" / "computer" / "tie"
    user_input,       \* the last line read by input()
    prompt,           \* the prompt that line answered: "guess" / "choose" / "add"
    key_draws         \* how many times secrets.token_bytes has been called

vars ==
    << argv, pc, dice, first_turn, offered, computer_choice, user_choice, exchange,
       roller, final_index, comp_roll, user_roll, outcome, user_input, prompt, key_draws >>

\* variant: the key is drawn once and kept for the later commitments
token_bytes_Cached(drawn) == IF drawn = 0 THEN 1 ELSE drawn

\* key = secrets.token_bytes(32): one more output taken from the secure source
\* (the count stops at MaxDraws)
token_bytes(drawn) == IF drawn < MaxDraws THEN drawn + 1 ELSE MaxDraws

\* no commitment made yet; player is the player argument of roll_dice, draw
\* the token_bytes call the key came from, printed the lines of the exchange
\* on the console in order ("hmac", "key", "result")
NoExchange ==
    [ kind |-> "none", player |-> "none", limit |-> 0, number |-> None, key |-> None, hmac |-> <<>>,
      hmac_shown |-> FALSE, user_value |-> None, key_shown |-> FALSE, digests |-> 0,
      draw |-> 0, printed |-> <<>> ]

\* variant: the commit line also prints the key
Committed_KeyLeaked(kind, player, limit, c, draw) ==
    [ kind |-> kind, player |-> player, limit |-> limit, number |-> c.number, key |-> c.key,
      hmac |-> c.hmac, hmac_shown |-> TRUE, user_value |-> None, key_shown |-> TRUE,
      digests |-> 1, draw |-> draw, printed |-> <<"hmac", "key">> ]

\* the locals of an exchange right after print(... (HMAC=...)): the tag is on
\* the console, number and key are not; digests counts the hmac computations
\* made on this commitment
Committed(kind, player, limit, c, draw) ==
    [ kind |-> kind, player |-> player, limit |-> limit, number |-> c.number, key |-> c.key, hmac |-> c.hmac,
      hmac_shown |-> TRUE, user_value |-> None, key_shown |-> FALSE, digests |-> 1,
      draw |-> draw, printed |-> <<"hmac">> ]

\* print(f"My selection: {comp_num} (KEY={comp_key}).") / print(f"My number is ...")
Revealed(e, value) ==
    [e EXCEPT !.user_value = value, !.key_shown = TRUE, !.printed = Append(@, "key")]

\* print(f"The result is {face} + {user_add} = {final_index} (mod {modulo}).")
Announced(e) == [e EXCEPT !.printed = Append(@, "result")]

\* variant: the result line is printed before the line with the key
RollPrints_ResultFirst(e, value) == Revealed(Announced(e), value)

\* the two prints of roll_dice after the combination, in source order
RollPrints(e, value) == Announced(Revealed(e, value))

\* variant: the range test is left out
ValidSelection_DigitsOnly(s, n) == isdigit(s)

\* not (s.isdigit()) or int(s) not in range(n)  is the rejection test
ValidSelection(s, n) == isdigit(s) /\ int(s) \in 0..(n - 1)

\* variant: the branches of the guess test swapped
FirstMover_Swapped(user_guess, comp_num) == IF user_guess = comp_num THEN "computer" ELSE "user"

\* if user_guess == comp_num: return self.user  else: return self.computer
FirstMover(user_guess, comp_num) == IF user_guess = comp_num THEN "user" ELSE "computer"

\* variant: the comparison reads the throws the other way round
Outcome_Swapped(u, c) == IF u < c THEN "user" ELSE IF u > c THEN "computer" ELSE "tie"

\* the three branches that end play_round
Outcome(u, c) == IF u > c THEN "user" ELSE IF u < c THEN "computer" ELSE "tie"

\* variant: the list handed to choose_dice is empty
RangeWithout_Nothing(n, x) == <<>>

\* list(range(len(self.dice))) without the entry x (x = None removes nothing)
RangeWithout(n, x) ==
    LET keep == { i \in 0..(n - 1) : i # x }
        RECURSIVE Asc(_)
        Asc(S) == IF S = {} THEN <<>>
                  ELSE LET m == CHOOSE a \in S : \A b \in S : a <= b
                       IN  <<m>> \o Asc(S \ {m})
    IN  Asc(keep)

dice_choice(player) == IF player = "computer" THEN computer_choice ELSE user_choice

\* variant: the computer picks again after the user although it moved first
ComputerPicks_Again(first, user_pick) ==
    { c \in 0..(Len(dice) - 1) : c # user_pick }

\* what computer.dice_choice may be once choose_dice has returned: the else
\* branch of play_round picks among the dice the user did not take, the if
\* branch has picked before
ComputerPicks(first, user_pick) ==
    IF first = "user" THEN { c \in 0..(Len(dice) - 1) : c # user_pick }
    ELSE { computer_choice }

Init ==
    /\ argv \in Configurations
    /\ pc = "start"
    /\ dice = <<>>
    /\ first_turn = "none"
    /\ offered = <<>>
    /\ computer_choice = None
    /\ user_choice = None
    /\ exchange = NoExchange
    /\ roller = "none"
    /\ final_index = None
    /\ comp_roll = None
    /\ user_roll = None
    /\ outcome = "none"
    /\ user_input = <<>>
    /\ prompt = "none"
    /\ key_draws = 0

\* __main__ and DiceGame.__init__: too few dice or a ValueError exit with 1
Construct ==
    /\ pc = "start"
    /\ IF Len(argv) < MinDice
         THEN pc' = "exit1" /\ dice' = dice
       ELSE IF \E i \in 1..Len(argv) : ~FieldsParse(argv[i]) \/ ~DiceValuesOk(ParseDie(argv[i]))
         THEN pc' = "exit1" /\ dice' = dice
       ELSE /\ dice' = [i \in 1..Len(argv) |-> ParseDie(argv[i])]
            /\ pc' = "first_turn"
    /\ UNCHANGED << argv, first_turn, offered, computer_choice, user_choice, exchange,
                    roller, final_index, comp_roll, user_roll, outcome, user_input, prompt,
                    key_draws >>

\* determine_first_turn up to the prompt
DetermineFirstTurn ==
    /\ pc = "first_turn"
    /\ key_draws' = token_bytes(key_draws)
    /\ \E c \in generate_secure_random(CoinLimit) :
          exchange' = Committed("turn", "none", CoinLimit, c, key_draws')
    /\ pc' = "guess"
    /\ UNCHANGED << argv, dice, first_turn, offered, computer_choice, user_choice,
                    roller, final_index, comp_roll, user_roll, outcome, user_input, prompt >>

\* determine_first_turn from input() on
Guess ==
    /\ pc = "guess"
    /\ \E inp \in Inputs :
          /\ user_input' = inp
          /\ prompt' = "guess"
          /\ IF inp = str(2)
               THEN pc' = "exit0" /\ UNCHANGED << exchange, first_turn >>
             ELSE IF ~ValidSelection(inp, CoinLimit)
               THEN pc' = "first_turn" /\ UNCHANGED << exchange, first_turn >>
             ELSE /\ exchange' = Revealed(exchange, int(inp))
                  /\ first_turn' = FirstMover(int(inp), exchange.number)
                  /\ pc' = "assign"
    /\ UNCHANGED << argv, dice, offered, computer_choice, user_choice,
                    roller, final_index, comp_roll, user_roll, outcome, key_draws >>

\* play_round between determine_first_turn and the prompt of choose_dice
AssignDice ==
    /\ pc = "assign"
    /\ IF first_turn = "computer"
         THEN \E c \in 0..(Len(dice) - 1) :
                 /\ computer_choice' = c
                 /\ offered' = RangeWithout(Len(dice), c)
         ELSE /\ offered' = RangeWithout(Len(dice), None)
              /\ computer_choice' = computer_choice
    /\ pc' = "choose"
    /\ UNCHANGED << argv, dice, first_turn, user_choice, exchange,
                    roller, final_index, comp_roll, user_roll, outcome, user_input, prompt,
                    key_draws >>

\* choose_dice from input() on, and the computer's pick when the user went first
ChooseDice ==
    /\ pc = "choose"
    /\ \E inp \in Inputs :
          /\ user_input' = inp
          /\ prompt' = "choose"
          /\ IF ~ValidSelection(inp, Len(offered))
               THEN UNCHANGED << pc, user_choice, computer_choice, roller >>
             ELSE /\ user_choice' = int(inp)
                  /\ computer_choice' \in ComputerPicks(first_turn, int(inp))
                  /\ roller' = "computer"
                  /\ pc' = "roll"
    /\ UNCHANGED << argv, dice, first_turn, offered, exchange,
                    final_index, comp_roll, user_roll, outcome, key_draws >>

\* roll_dice up to the prompt
RollDice ==
    /\ pc = "roll"
    /\ key_draws' = token_bytes(key_draws)
    /\ \E c \in generate_secure_random(DefaultModulo) :
          exchange' = Committed("roll", roller, DefaultModulo, c, key_draws')
    /\ pc' = "add"
    /\ UNCHANGED << argv, dice, first_turn, offered, computer_choice, user_choice,
                    roller, final_index, comp_roll, user_roll, outcome, user_input, prompt >>

\* roll_dice from input() on; values[face_index] past the end raises IndexError
Add ==
    /\ pc = "add"
    /\ \E inp \in Inputs :
          /\ user_input' = inp
          /\ prompt' = "add"
          /\ IF inp = str(exchange.limit)
               THEN /\ pc' = "exit0"
                    /\ UNCHANGED << exchange, roller, final_index, comp_roll, user_roll >>
             ELSE IF ~ValidSelection(inp, exchange.limit)
               THEN /\ pc' = "roll"
                    /\ UNCHANGED << exchange, roller, final_index, comp_roll, user_roll >>
             ELSE LET idx == compute_modular_result(int(inp), exchange.number, exchange.limit)
                      values == dice[dice_choice(exchange.player) + 1]
                  IN  /\ exchange' = RollPrints(exchange, int(inp))
                      /\ final_index' = idx
                      /\ IF idx >= Len(values)
                           THEN /\ pc' = "IndexError"
                                /\ UNCHANGED << roller, comp_roll, user_roll >>
                         ELSE IF roller = "computer"
                           THEN /\ comp_roll' = values[idx + 1]
                                /\ roller' = "user"
                                /\ pc' = "roll"
                                /\ user_roll' = user_roll
                         ELSE /\ user_roll' = values[idx + 1]
                              /\ pc' = "compare"
                              /\ UNCHANGED << roller, comp_roll >>
    /\ UNCHANGED << argv, dice, first_turn, offered, computer_choice, user_choice, outcome,
                    key_draws >>

\* variant: after the result another round is started
Compare_Replay ==
    /\ pc = "compare"
    /\ outcome' = Outcome(user_roll, comp_roll)
    /\ pc' = "first_turn"
    /\ UNCHANGED << argv, dice, first_turn, offered, computer_choice, user_choice, exchange,
                    roller, final_index, comp_roll, user_roll, user_input, prompt, key_draws >>

\* the end of play_round
Compare ==
    /\ pc = "compare"
    /\ outcome' = Outcome(user_roll, comp_roll)
    /\ pc' = "done"
    /\ UNCHANGED << argv, dice, first_turn, offered, computer_choice, user_choice, exchange,
                    roller, final_index, comp_roll, user_roll, user_input, prompt, key_draws >>

Next ==
    \/ Construct
    \/ DetermineFirstTurn
    \/ Guess
    \/ AssignDice
    \/ ChooseDice
    \/ RollDice
    \/ Add
    \/ Compare

Spec == Init /\ [][Next]_vars

\* ------------------------------------------------------------- scheduling
\* the program runs on by itself between prompts; at a prompt the user does
\* not go on typing rejected lines for ever: the input steps that are not
\* rejections
GuessSettled == Guess /\ pc' # "first_turn"

ChooseSettled == ChooseDice /\ pc' # "choose"

AddSettled == Add /\ (pc' # "roll" \/ exchange'.key_shown)

\* the command line the fair runs start from: three four-face dice, an
\* accepted configuration on which a Round can end in each of its three ways
InitFair == Init /\ argv = ArgvFourFaces

FairSpec ==
    /\ InitFair
    /\ [][Next]_vars
    /\ WF_vars(Construct)
    /\ WF_vars(DetermineFirstTurn)
    /\ WF_vars(AssignDice)
    /\ WF_vars(RollDice)
    /\ WF_vars(Compare)
    /\ SF_vars(GuessSettled)
    /\ SF_vars(ChooseSettled)
    /\ SF_vars(AddSettled)

\* ---------------------------------------- compute_modular_result on its own
\* the arguments are held where roll_dice holds them: user_add in
\* exchange.user_value, face in exchange.number, modulo in exchange.limit
InitCombine ==
    /\ argv = ArgvExample
    /\ pc = "combine"
    /\ dice = <<>>
    /\ first_turn = "none"
    /\ offered = <<>>
    /\ computer_choice = None
    /\ user_choice = None
    /\ \E m \in 1..MaxModulus : \E a, b \in 0..(m - 1) :
          exchange = [NoExchange EXCEPT !.limit = m, !.user_value = a, !.number = b]
    /\ roller = "none"
    /\ final_index = None
    /\ comp_roll = None
    /\ user_roll = None
    /\ outcome = "none"
    /\ user_input = <<>>
    /\ prompt = "none"
    /\ key_draws = 0

\* final_index = FairRandom.compute_modular_result(user_add, face, modulo)
Combine ==
    /\ pc = "combine"
    /\ final_index' = compute_modular_result(exchange.user_value, exchange.number, exchange.limit)
    /\ pc' = "combined"
    /\ UNCHANGED << argv, dice, first_turn, offered, computer_choice, user_choice, exchange,
                    roller, comp_roll, user_roll, outcome, user_input, prompt, key_draws >>

NextCombine == Combine

SpecCombine == InitCombine /\ [][NextCombine]_vars

TypeOK ==
    /\ argv \in Configurations
    /\ pc \in { "start", "first_turn", "guess", "assign", "choose", "roll", "add",
                "compare", "done", "exit0", "exit1", "IndexError", "combine", "combined" }
    /\ first_turn \in { "none", "user", "computer" }
    /\ roller \in { "none", "user", "computer" }
    /\ outcome \in { "none", "user", "computer", "tie" }
    /\ prompt \in { "none", "guess", "choose", "add" }
    /\ user_input \in Inputs
    /\ exchange.kind \in { "none", "turn", "roll" }

\* ----------------------------------------------------------------- claims
\* the die of the player whose roll_dice call made the current exchange
RolledDie == dice[dice_choice(exchange.player) + 1]

\* a roll_dice call has passed its reveal
RollRevealed == exchange.kind = "roll" /\ exchange.key_shown

\* C1: once both players hold a die, the die the computer rolls and the die
\* the user rolls are two distinct dice of the pool.
C1_DistinctDice ==
    (computer_choice # None /\ user_choice # None) => computer_choice # user_choice

\* C2: when the computer moved first, the die used for the user's throw is
\* the die the user selected from the offered (remaining) list.
C2_UserThrowsSelectedDie ==
    (first_turn = "computer" /\ user_roll # None) => user_choice = offered[user_choice + 1]

\* C3: the HMAC is on the console before the key, and the key is shown only
\* once the user's value for that exchange has been read and accepted; while
\* the program waits for that value the key is not shown.
C3_RevealAfterContribution ==
    /\ pc \in {"guess", "add"} =>
          exchange.hmac_shown /\ ~exchange.key_shown /\ exchange.user_value = None
    /\ exchange.key_shown =>
          /\ exchange.hmac_shown
          /\ exchange.hmac = hmac_new(exchange.key, str(exchange.number))
          /\ exchange.user_value \in 0..(exchange.limit - 1)

C3_Witness ==
    /\ RollRevealed
    /\ exchange.player = "user"
    /\ exchange.user_value = 5
    /\ pc = "compare"

\* C4: every exchange recomputes the keyed digest of the revealed pair after
\* the reveal (a second digest computation on that commitment).
C4_VerifiedAfterReveal ==
    exchange.key_shown => exchange.digests >= 2

\* C5: a roll uses modulus = face count of the rolling player's die: the
\* committed number and the accepted value lie in [0, face count) and the
\* throw is values[(number + value) mod face count].
C5_ModulusIsFaceCount ==
    RollRevealed =>
        LET n == Len(RolledDie)
        IN  /\ exchange.limit = n
            /\ exchange.number \in 0..(n - 1)
            /\ exchange.user_value \in 0..(n - 1)
            /\ final_index = (exchange.number + exchange.user_value) % n
            /\ pc # "IndexError"
            /\ (IF exchange.player = "computer" THEN comp_roll ELSE user_roll)
                  = RolledDie[final_index + 1]

\* C6: the index given to Dice.roll is within the die, so roll never fails.
C6_FaceIndexInRange ==
    /\ pc # "IndexError"
    /\ RollRevealed => (0 <= final_index /\ final_index < Len(RolledDie))

\* a command line the configuration rules forbid
Malformed(a) ==
    \/ Len(a) < MinDice
    \/ \E i \in 1..Len(a) : ~FieldsParse(a[i])
    \/ \E i \in 1..Len(a) : FieldsParse(a[i]) /\ \E k \in 1..Len(ParseDie(a[i])) : ParseDie(a[i])[k] < 0
    \/ \E i, j \in 1..Len(a) : Len(split(a[i])) # Len(split(a[j]))

\* C7: a malformed command line ends in the configuration error before any
\* exchange starts, so the dice of a running game all have the same length.
C7_MalformedRejected ==
    /\ Malformed(argv) => (pc \in {"start", "exit1"} /\ exchange.kind = "none")
    /\ pc \notin {"start", "exit1"} =>
          \A i, j \in 1..Len(dice) : Len(dice[i]) = Len(dice[j])

\* C8: the user moves first iff the accepted guess equals the committed
\* number of the exchange whose HMAC is the one on the console.
C8_FirstMoverIffGuess ==
    (exchange.kind = "turn" /\ exchange.key_shown) =>
        /\ exchange.hmac_shown
        /\ exchange.hmac = hmac_new(exchange.key, str(exchange.number))
        /\ exchange.user_value \in {0, 1}
        /\ exchange.number \in {0, 1}
        /\ first_turn = "user" <=> exchange.user_value = exchange.number
        /\ first_turn = "computer" <=> exchange.user_value # exchange.number

C8_Witness ==
    /\ exchange.kind = "turn"
    /\ exchange.key_shown
    /\ exchange.number = 1
    /\ user_input = <<"0", "1">>
    /\ first_turn = "user"

\* C9: the outcome is the user if the user's throw is greater, the computer
\* if it is less, a tie if equal; there is an outcome exactly when the round
\* has finished comparing, and nothing happens after that.
C9_Outcome ==
    /\ [](pc = "done" =>
            /\ user_roll > comp_roll => outcome = "user"
            /\ user_roll < comp_roll => outcome = "computer"
            /\ user_roll = comp_roll => outcome = "tie")
    /\ [](outcome # "none" <=> pc = "done")
    /\ [][pc # "done"]_vars

C9_Witness ==
    /\ pc = "done"
    /\ outcome = "computer"
    /\ user_roll < comp_roll
    /\ computer_choice # user_choice

\* what asks for exit at a prompt: the menu entry "2 - Exit" of the guess,
\* "{modulo} - Exit" of the roll; the dice menu prints no exit entry, there
\* the entry numbered right after the last die, or "X", is taken as the request
ExitRequested ==
    \/ prompt = "guess" /\ user_input = str(CoinLimit)
    \/ prompt = "choose" /\ user_input \in {str(Len(offered)), <<"X">>}
    \/ prompt = "add" /\ user_input = str(DefaultModulo)

\* C10: an exit request at any prompt ends the round: no outcome, no further
\* prompt, no reveal of the pending commitment.
C10_ExitHonoured ==
    ExitRequested =>
        /\ pc = "exit0"
        /\ outcome = "none"
        /\ prompt \in {"guess", "add"} => ~exchange.key_shown

\* C11: the number and key an exchange reveals are those of the commitment
\* whose HMAC was printed last, retries included: the keyed digest of the
\* revealed pair is that HMAC.
C11_RoundTrip ==
    exchange.key_shown =>
        /\ exchange.printed[1] = "hmac"
        /\ exchange.number \in 0..(exchange.limit - 1)
        /\ exchange.key \in Keys
        /\ hmac_new(exchange.key, str(exchange.number)) = exchange.hmac

\* a first-move exchange revealed after two rejected guesses
C11_Witness ==
    /\ exchange.kind = "turn"
    /\ exchange.key_shown
    /\ exchange.draw = 3
    /\ exchange.number = 1
    /\ pc = "assign"

\* a step that makes a commitment and prints its HMAC
CommitStep == pc \in {"first_turn", "roll"} /\ pc' \in {"guess", "add"}

\* how many times the key line of the exchange has been printed
KeyLines(e) == Cardinality({ i \in 1..Len(e.printed) : e.printed[i] = "key" })

\* C12: every commitment, re-attempts included, takes a new key from
\* token_bytes, so no drawn key stands behind two printed HMACs; between
\* commitments neither key nor HMAC changes; a commitment is revealed at most
\* once and after its reveal is only ever replaced by a new commitment.
C12_SingleUse ==
    /\ [](exchange.kind # "none" =>
            /\ exchange.draw = key_draws
            /\ KeyLines(exchange) <= 1
            /\ exchange.key_shown <=> KeyLines(exchange) = 1)
    /\ [][CommitStep =>
            /\ key_draws < MaxDraws => key_draws' = key_draws + 1
            /\ exchange'.draw = key_draws'
            /\ KeyLines(exchange') = 0]_vars
    /\ [][~CommitStep =>
            /\ key_draws' = key_draws
            /\ exchange'.draw = exchange.draw
            /\ exchange'.key = exchange.key
            /\ exchange'.hmac = exchange.hmac]_vars
    /\ [][exchange.key_shown => (exchange' = exchange \/ CommitStep)]_vars

\* a finished round that needed a fourth commitment after a rejected input
C12_Witness ==
    /\ pc = "done"
    /\ key_draws = 4
    /\ exchange.draw = 4
    /\ exchange.key_shown

\* C13: for every limit > 0 and a, b in [0, limit) the result r of
\* compute_modular_result lies in [0, limit) and differs from a + b by a
\* multiple of limit (0 or limit itself), i.e. r = (a + b) mod limit.
C13_CombineInRange ==
    pc = "combined" =>
        /\ final_index \in 0..(exchange.limit - 1)
        /\ \E q \in 0..1 :
              exchange.user_value + exchange.number = q * exchange.limit + final_index

\* a sum that wraps: 6 + 6 = 5 (mod 7)
C13_Witness ==
    /\ pc = "combined"
    /\ exchange.limit = 7
    /\ exchange.user_value = 6
    /\ exchange.number = 6
    /\ final_index = 5

\* a line that names no number of the range 0..n-1
OutOfRange(inp, n) == ~isdigit(inp) \/ int(inp) \notin 0..(n - 1)

\* what an input step must leave alone when the line it read is rejected
RoundUntouched ==
    UNCHANGED << first_turn, computer_choice, user_choice, comp_roll, user_roll,
                 final_index, outcome, exchange, roller, offered, dice >>

C15_OneDiePerPlayer ==
    /\ [](pc \in {"roll", "add", "compare", "done", "IndexError"} =>
            (computer_choice # None /\ user_choice # None))
    /\ [](exchange.kind = "roll" => (computer_choice # None /\ user_choice # None))
    /\ [][computer_choice # None => computer_choice' = computer_choice]_vars
    /\ [][user_choice # None => user_choice' = user_choice]_vars

\* both throws made, one roll re-staged on the way, the computer having
\* picked first
C15_Witness ==
    /\ first_turn = "computer"
    /\ computer_choice = 2
    /\ user_choice = 1
    /\ comp_roll # None
    /\ user_roll # None
    /\ key_draws = 4

\* the Round state a program position belongs to: 1 DetermineFirstMover,
\* 2 AssignDice, 3 RollForPlayer(computer), 4 RollForPlayer(user), 5 Compare;
\* 0 is before the Round, 6 an exit or crash
Stage(p, r) ==
    CASE p = "start" -> 0
      [] p \in {"first_turn", "guess"} -> 1
      [] p \in {"assign", "choose"} -> 2
      [] p \in {"roll", "add"} /\ r = "computer" -> 3
      [] p \in {"roll", "add"} /\ r = "user" -> 4
      [] p \in {"compare", "done"} -> 5
      [] OTHER -> 6

\* C16: the Round moves through DetermineFirstMover, AssignDice, the
\* computer's roll, the user's roll and Compare in this order, one state at
\* a time or out by an exit; a step never leads to an earlier state (a retry
\* stays in its state); each throw is made once and Compare comes only after
\* both.
C16_LinearOrder ==
    /\ [][ \/ Stage(pc', roller') = Stage(pc, roller)
           \/ Stage(pc', roller') = Stage(pc, roller) + 1
           \/ Stage(pc', roller') = 6 ]_vars
    /\ [][comp_roll # None => comp_roll' = comp_roll]_vars
    /\ [][user_roll # None => user_roll' = user_roll]_vars
    /\ [](user_roll # None => comp_roll # None)
    /\ [](Stage(pc, roller) = 5 <=> (pc \notin {"exit0", "IndexError"} /\ user_roll # None))
    /\ [](Stage(pc, roller) = 4 => comp_roll # None)

\* Compare reached after a retry somewhere on the way
C16_Witness ==
    /\ pc = "compare"
    /\ key_draws = 4
    /\ comp_roll # None
    /\ user_roll # None
    /\ first_turn = "user"

\* C17 as claimed: in a revealed roll exchange the result line stands on the
\* console before the line with the key, the key line right after it.
C17_ResultThenKey ==
    RollRevealed => exchange.printed = <<"hmac", "result", "key">>

\* C17 as amended: a roll exchange prints the committed number with the key
\* first and the result line right after it, in the same step: whenever the
\* key of a roll is on the console so is the result, in this order, before
\* the next exchange or the comparison; the result is never shown without
\* the key.
C17_KeyThenResult ==
    /\ RollRevealed => exchange.printed = <<"hmac", "key", "result">>
    /\ (exchange.kind = "roll" /\ ~exchange.key_shown) => exchange.printed = <<"hmac">>

\* the computer's roll is revealed and the user's roll not yet staged
C17_Witness ==
    /\ RollRevealed
    /\ exchange.player = "computer"
    /\ pc = "roll"
    /\ roller = "user"
    /\ comp_roll # None

\* C18: once the command line is accepted and the user does not type
\* rejected lines for ever, the Round ends: with a printed outcome, with an
\* exit, or with the uncaught IndexError of Dice.roll.
C18_Terminates ==
    (pc = "first_turn") ~> (pc \in {"done", "exit0", "IndexError"})

\* the user leaves at the prompt of the own roll, after a retry on the way
C18_Witness ==
    /\ pc = "exit0"
    /\ prompt = "add"
    /\ exchange.player = "user"
    /\ key_draws = 4
    /\ outcome = "none"

====
